---------------------------- MODULE Spec2Model ----------------------------
(***************************************************************************)
(* A model of src/lang.cpp: the scanner (get_token), the recursive-descent *)
(* parser with precedence climbing, the lowering of the AST into the       *)
(* target module, and the driver loop.                                     *)
(*                                                                         *)
(* Characters are one-character strings, the end of the input is EOF.      *)
(* A token is the int get_token returns: one of the TOK_ names or the      *)
(* character itself.  A number is a decimal m / 10^e.                      *)
(***************************************************************************)
EXTENDS Integers, Sequences, FiniteSets, TLC

VARIABLES
    input,           \* the characters standard input holds
    pos,             \* how many of them getchar has returned
    last_char,       \* get_token's static last_char
    identifier_str,  \* the global identifier_str
    num_val,         \* the global num_val
    current_token,   \* the global current_token
    scanned,         \* history: the characters of the run the last number token covers
    tokens,          \* the scanner's output where it is given as such, one entry per token
    tpos,            \* history: how many times get_next_token has been called
    result,          \* what the last parse_expression returned
    the_module,      \* the target module: its function list and its name counter
    named_values,    \* the global named_values
    lifecycle,       \* history: per function object, the stages it went through
    last,            \* history: what the last iteration of main_loop did
    pc               \* where main is: "loop", "done" (it returned), "aborted" (the
                     \* process died in the loop) or "died" (after the loop)

vars == <<input, pos, last_char, identifier_str, num_val, current_token, scanned,
          tokens, tpos, result, the_module, named_values, lifecycle, last, pc>>

-----------------------------------------------------------------------------
(* Bounds of the checked instances *)

MaxLen == 4

MaxToks == 5

MaxOps == 4

MaxItems == 4

-----------------------------------------------------------------------------
(* Characters, <cctype> *)

EOF == "EOF"

Letters ==
    {"a","b","c","d","e","f","g","h","i","j","k","l","m","n","o","p","q","r","s",
     "t","u","v","w","x","y","z","A","B","C","D","E","F","G","H","I","J","K","L",
     "M","N","O","P","Q","R","S","T","U","V","W","X","Y","Z"}

DigitChars == <<"0","1","2","3","4","5","6","7","8","9">>

isdigit(c) == \E i \in 1..10 : DigitChars[i] = c

isalpha(c) == c \in Letters

isalnum(c) == isalpha(c) \/ isdigit(c)

(* space, \t, \n, \v (the character 0x0b), \f, \r *)
isspace(c) == c \in {" ", "\t", "\n", "", "\f", "\r"}

-----------------------------------------------------------------------------
(* Numbers.  [m, e] is the double nearest to the decimal m / 10^e, written
   with no trailing zero in the fraction. *)

RECURSIVE Pow10(_)
Pow10(n) == IF n = 0 THEN 1 ELSE 10 * Pow10(n - 1)

RECURSIVE Normal(_)
Normal(x) ==
    IF x.e > 0 /\ x.m % 10 = 0 THEN Normal([m |-> x.m \div 10, e |-> x.e - 1]) ELSE x

Num(m, e) == Normal([m |-> m, e |-> e])

DigitVal(c) == (CHOOSE i \in 1..10 : DigitChars[i] = c) - 1

RECURSIVE DigitPrefix(_)
DigitPrefix(s) ==
    IF s # << >> /\ isdigit(Head(s)) THEN <<Head(s)>> \o DigitPrefix(Tail(s)) ELSE << >>

RECURSIVE DigitsValue(_)
DigitsValue(s) ==
    IF s = << >> THEN 0 ELSE 10 * DigitsValue(SubSeq(s, 1, Len(s) - 1)) + DigitVal(s[Len(s)])

(* strtod on a text of digits and points: the longest prefix digits [. digits]
   with at least one digit is converted, anything else gives 0. *)
strtod(s) ==
    LET ip    == DigitPrefix(s)
        rest  == SubSeq(s, Len(ip) + 1, Len(s))
        fp    == IF rest # << >> /\ Head(rest) = "." THEN DigitPrefix(Tail(rest)) ELSE << >>
    IN  IF Len(ip) + Len(fp) = 0 THEN Num(0, 0)
        ELSE Num(DigitsValue(ip \o fp), Len(fp))

-----------------------------------------------------------------------------
(* Bind(x, F) is F(x) with x evaluated once: the value of a call is computed
   where the code calls it and then only read. *)
Bind(x, F(_)) == CHOOSE y \in {F(v) : v \in {x}} : TRUE

-----------------------------------------------------------------------------
(* The scanner *)

getchar(inp, p) ==
    IF p < Len(inp) THEN [c |-> inp[p + 1], pos |-> p + 1] ELSE [c |-> EOF, pos |-> p]

(* while (isspace (last_char)) last_char = getchar () *)
RECURSIVE SkipSpace(_, _, _)
SkipSpace(inp, lc, p) ==
    IF isspace(lc)
    THEN Bind(getchar(inp, p), LAMBDA g : SkipSpace(inp, g.c, g.pos))
    ELSE [c |-> lc, pos |-> p]

(* while (isalnum (last_char = getchar ())) identifier_str += last_char *)
RECURSIVE ReadIdentifier(_, _, _)
ReadIdentifier(inp, p, str) ==
    Bind(getchar(inp, p), LAMBDA g :
        IF isalnum(g.c) THEN ReadIdentifier(inp, g.pos, str \o g.c)
        ELSE [str |-> str, c |-> g.c, pos |-> g.pos])

(* The do-while of the number branch.  run collects the characters the loop
   accepts; the code's number_str is not touched by the loop. *)
RECURSIVE ReadNumber(_, _, _, _)
ReadNumber(inp, p, num_points, run) ==
    Bind(getchar(inp, p), LAMBDA g :
        LET np == IF g.c = "." THEN num_points + 1 ELSE num_points
        IN  IF (isdigit(g.c) \/ g.c = ".") /\ np <= 1
            THEN ReadNumber(inp, g.pos, np, Append(run, g.c))
            ELSE [c |-> g.c, pos |-> g.pos, run |-> run])

(* do last_char = getchar (); while (last_char != EOF && != '\n' && != '\r') *)
RECURSIVE SkipComment(_, _)
SkipComment(inp, p) ==
    Bind(getchar(inp, p), LAMBDA g :
        IF g.c # EOF /\ g.c # "\n" /\ g.c # "\r" THEN SkipComment(inp, g.pos) ELSE g)

(* get_token from the scanner state st = [pos, last_char, identifier_str, num_val]:
   the token it returns and the state it leaves. *)
RECURSIVE get_token(_, _)
get_token(inp, st) ==
    Bind(SkipSpace(inp, st.last_char, st.pos), LAMBDA w :
        IF isalpha(w.c) THEN
            Bind(ReadIdentifier(inp, w.pos, w.c), LAMBDA r :
                [tok |-> IF r.str = "def" THEN "TOK_DEF"
                         ELSE IF r.str = "extern" THEN "TOK_EXTERN"
                         ELSE "TOK_IDENTIFIER",
                 pos |-> r.pos, last_char |-> r.c, identifier_str |-> r.str,
                 num_val |-> st.num_val, scanned |-> << >>])
        ELSE IF isdigit(w.c) \/ w.c = "." THEN
            LET number_str == << >>
            IN  Bind(ReadNumber(inp, w.pos, 0, <<w.c>>), LAMBDA r :
                    [tok |-> "TOK_NUMBER",
                     pos |-> r.pos, last_char |-> r.c,
                     identifier_str |-> st.identifier_str,
                     num_val |-> strtod(number_str), scanned |-> r.run])
        ELSE
            Bind(IF w.c = "#" THEN SkipComment(inp, w.pos) ELSE w, LAMBDA k :
                IF w.c = "#" /\ k.c # EOF THEN
                    get_token(inp, [pos |-> k.pos, last_char |-> k.c,
                                    identifier_str |-> st.identifier_str,
                                    num_val |-> st.num_val])
                ELSE IF k.c = EOF THEN
                    [tok |-> "TOK_EOF",
                     pos |-> k.pos, last_char |-> k.c,
                     identifier_str |-> st.identifier_str,
                     num_val |-> st.num_val, scanned |-> << >>]
                ELSE
                    Bind(getchar(inp, k.pos), LAMBDA g :
                        [tok |-> k.c,
                         pos |-> g.pos, last_char |-> g.c,
                         identifier_str |-> st.identifier_str,
                         num_val |-> st.num_val, scanned |-> << >>])))

-----------------------------------------------------------------------------
(* The AST *)

NullAST == [k |-> "null"]

IsNull(a) == a.k = "null"

NumberExprAST(num) == [k |-> "num", num_value |-> num]

VariableExprAST(name) == [k |-> "var", name |-> name]

BinaryExprAST(op, LHS, RHS) == [k |-> "bin", op |-> op, LHS |-> LHS, RHS |-> RHS]

CallExprAST(callee_name, args) == [k |-> "call", name |-> callee_name, args |-> args]

PrototypeAST(name, args) == [k |-> "proto", name |-> name, args |-> args]

FunctionAST(prototype, body) == [k |-> "func", prototype |-> prototype, body |-> body]

-----------------------------------------------------------------------------
(* The parser.  Its state ps holds the globals it reads and writes: the
   scanner's pos and last_char, current_token, identifier_str, num_val, tpos
   (history: how many times get_next_token has been called) and errs, the
   messages log_error has printed.  Each parse function gives [ast, ps]: the
   node it returns (NullAST for nullptr) and the state it leaves. *)

TokNames == {"TOK_EOF", "TOK_DEF", "TOK_EXTERN", "TOK_IDENTIFIER", "TOK_NUMBER"}

(* current_token = get_token ().  Where a specification states the scanner's
   output itself (tokens), the calls return its entries in order, str and num
   being what the call stores in identifier_str and num_val; after them, and
   everywhere else, get_token reads the input. *)
get_next_token(ps) ==
    IF ps.tpos < Len(tokens)
    THEN LET t == tokens[ps.tpos + 1]
         IN  [ps EXCEPT !.tpos = @ + 1,
                        !.current_token = t.tok,
                        !.identifier_str = IF t.tok = "TOK_IDENTIFIER" THEN t.str ELSE @,
                        !.num_val = IF t.tok = "TOK_NUMBER" THEN t.num ELSE @]
    ELSE Bind(get_token(input, [pos |-> ps.pos, last_char |-> ps.last_char,
                                identifier_str |-> ps.identifier_str,
                                num_val |-> ps.num_val]),
              LAMBDA r :
                [ps EXCEPT !.tpos = @ + 1,
                           !.pos = r.pos,
                           !.last_char = r.last_char,
                           !.current_token = r.tok,
                           !.identifier_str = r.identifier_str,
                           !.num_val = r.num_val])

(* main's four assignments; operator[] gives 0 for any other character *)
binary_op_precedence(c) ==
    CASE c = "<" -> 10
      [] c = "+" -> 20
      [] c = "-" -> 20
      [] c = "*" -> 40
      [] OTHER   -> 0

(* the characters 0x80 .. 0xff *)
HighBytes ==
    {"", "", "", "", "", "", "", "", "", "", "", "", "", "", "", "",
     "", "", "", "", "", "", "", "", "", "", "", "", "", "", "", "",
     " ", "¡", "¢", "£", "¤", "¥", "¦", "§", "¨", "©", "ª", "«", "¬", "­", "®", "¯",
     "°", "±", "²", "³", "´", "µ", "¶", "·", "¸", "¹", "º", "»", "¼", "½", "¾", "¿",
     "À", "Á", "Â", "Ã", "Ä", "Å", "Æ", "Ç", "È", "É", "Ê", "Ë", "Ì", "Í", "Î", "Ï",
     "Ð", "Ñ", "Ò", "Ó", "Ô", "Õ", "Ö", "×", "Ø", "Ù", "Ú", "Û", "Ü", "Ý", "Þ", "ß",
     "à", "á", "â", "ã", "ä", "å", "æ", "ç", "è", "é", "ê", "ë", "ì", "í", "î", "ï",
     "ð", "ñ", "ò", "ó", "ô", "õ", "ö", "÷", "ø", "ù", "ú", "û", "ü", "ý", "þ", "ÿ"}

(* isascii: the int is in 0 .. 127; the TOK_ values are negative *)
isascii(tok) == tok \notin TokNames /\ tok \notin HighBytes

get_token_precedence(ps) ==
    IF ~isascii(ps.current_token) THEN -1
    ELSE LET token_precedence == binary_op_precedence(ps.current_token)
         IN  IF token_precedence <= 0 THEN -1 ELSE token_precedence

log_error(ps, err_str) == [ast |-> NullAST, ps |-> [ps EXCEPT !.errs = Append(@, err_str)]]

RECURSIVE parse_expression(_)
RECURSIVE parse_primary(_)
RECURSIVE parse_bin_op_rhs(_, _, _)
RECURSIVE parse_call_args(_, _)

parse_number_expression(ps) ==
    [ast |-> NumberExprAST(ps.num_val), ps |-> get_next_token(ps)]

parse_paren_expression(ps) ==
    Bind(parse_expression(get_next_token(ps)), LAMBDA expr :
        IF IsNull(expr.ast) THEN expr
        ELSE IF expr.ps.current_token # ")" THEN log_error(expr.ps, "expected ')'")
        ELSE [ast |-> expr.ast, ps |-> get_next_token(expr.ps)])

(* The while (true) of parse_identifier_expression: ok is FALSE where the loop
   leaves through return log_error, TRUE where it leaves through break. *)
parse_call_args(call_args, ps) ==
    Bind(parse_expression(ps), LAMBDA arg :
        Bind(IF ~IsNull(arg.ast) THEN Append(call_args, arg.ast) ELSE call_args,
             LAMBDA args :
                IF arg.ps.current_token = ")"
                THEN [ok |-> TRUE, args |-> args, ps |-> arg.ps]
                ELSE IF arg.ps.current_token # ","
                THEN [ok |-> FALSE, args |-> args,
                      ps |-> log_error(arg.ps, "expected ')' or ',' ").ps]
                ELSE Bind(get_next_token(arg.ps), LAMBDA ps1 :
                        parse_call_args(args, ps1))))

parse_identifier_expression(ps) ==
    LET identifier_name == ps.identifier_str
    IN  Bind(get_next_token(ps), LAMBDA ps1 :
            IF ps1.current_token # "("
            THEN [ast |-> VariableExprAST(identifier_name), ps |-> ps1]
            ELSE Bind(get_next_token(ps1), LAMBDA ps2 :
                    Bind(IF ps2.current_token # ")" THEN parse_call_args(<< >>, ps2)
                         ELSE [ok |-> TRUE, args |-> << >>, ps |-> ps2],
                         LAMBDA a :
                            IF ~a.ok THEN [ast |-> NullAST, ps |-> a.ps]
                            ELSE [ast |-> CallExprAST(identifier_name, a.args),
                                  ps |-> get_next_token(a.ps)])))

parse_primary(ps) ==
    CASE ps.current_token = "TOK_IDENTIFIER" -> parse_identifier_expression(ps)
      [] ps.current_token = "TOK_NUMBER"     -> parse_number_expression(ps)
      [] ps.current_token = "("              -> parse_paren_expression(ps)
      [] OTHER                               -> log_error(ps, "unknown token")

(* line 309 with the comparison turned round: a tighter next operator is not
   taken into the right operand *)
RhsTakesLooser(token_prec, next_prec) == next_prec < token_prec

(* line 309: the right operand takes the next operator first *)
RhsTakesNext(token_prec, next_prec) == token_prec < next_prec

parse_bin_op_rhs(expr_prec, LHS, ps) ==
    LET token_prec == get_token_precedence(ps)
        binop      == ps.current_token
    IN  IF token_prec < expr_prec THEN [ast |-> LHS, ps |-> ps]
        ELSE Bind(get_next_token(ps), LAMBDA ps1 :
             Bind(parse_primary(ps1), LAMBDA r :
                IF IsNull(r.ast) THEN r
                ELSE Bind(IF RhsTakesNext(token_prec, get_token_precedence(r.ps))
                          THEN parse_bin_op_rhs(token_prec + 1, r.ast, r.ps)
                          ELSE r,
                          LAMBDA RHS :
                            IF IsNull(RHS.ast) THEN RHS
                            ELSE Bind(BinaryExprAST(binop, LHS, RHS.ast), LAMBDA merged :
                                    parse_bin_op_rhs(expr_prec, merged, RHS.ps)))))

parse_expression(ps) ==
    Bind(parse_primary(ps), LAMBDA LHS :
        IF IsNull(LHS.ast) THEN LHS ELSE parse_bin_op_rhs(0, LHS.ast, LHS.ps))

(* while (get_next_token () == TOK_IDENTIFIER) arg_names.push_back (identifier_str) *)
RECURSIVE parse_prototype_args(_, _)
parse_prototype_args(arg_names, ps) ==
    Bind(get_next_token(ps), LAMBDA ps1 :
        IF ps1.current_token = "TOK_IDENTIFIER"
        THEN Bind(Append(arg_names, ps1.identifier_str), LAMBDA names :
                parse_prototype_args(names, ps1))
        ELSE [args |-> arg_names, ps |-> ps1])

parse_prototype(ps) ==
    IF ps.current_token # "TOK_IDENTIFIER"
    THEN log_error(ps, "Expected function name in prototype")
    ELSE LET func_name == ps.identifier_str
         IN  Bind(get_next_token(ps), LAMBDA ps1 :
                IF ps1.current_token # "(" THEN log_error(ps1, "Expected '(' in prototype")
                ELSE Bind(parse_prototype_args(<< >>, ps1), LAMBDA a :
                        IF a.ps.current_token # ")"
                        THEN log_error(a.ps, "Expected ')' in prototype")
                        ELSE [ast |-> PrototypeAST(func_name, a.args),
                              ps |-> get_next_token(a.ps)]))

parse_definition(ps) ==
    Bind(get_next_token(ps), LAMBDA ps1 :
    Bind(parse_prototype(ps1), LAMBDA prototype :
        IF IsNull(prototype.ast) THEN prototype
        ELSE Bind(parse_expression(prototype.ps), LAMBDA expr :
                IF ~IsNull(expr.ast)
                THEN [ast |-> FunctionAST(prototype.ast, expr.ast), ps |-> expr.ps]
                ELSE expr)))

parse_toplevel_expression(ps) ==
    Bind(parse_expression(ps), LAMBDA expression :
        IF ~IsNull(expression.ast)
        THEN [ast |-> FunctionAST(PrototypeAST("__anon_expr", << >>), expression.ast),
              ps |-> expression.ps]
        ELSE expression)

parse_extern(ps) == Bind(get_next_token(ps), LAMBDA ps1 : parse_prototype(ps1))

-----------------------------------------------------------------------------
(* The target module.  the_module.funcs is the module's function list; a
   function is [id, obj, name, src, args, blocks]: id stands for the Function
   object's address, obj (history) numbers the objects in the order they are
   created, name is its name in the module's symbol table, src the name it was
   created for, args the names of its arguments, blocks its basic blocks, each
   a sequence of instructions [op, callee, target, operands]: callee is the
   address a call instruction holds, target (history) the object it was made
   for.  LastUnique is the counter the module's symbol table numbers clashing
   names with, nextId the first address never used, created (history) the
   number of Function objects created.

   A value is [k |-> "null"] (nullptr), [k |-> "const", num] (a ConstantFP),
   [k |-> "arg", f, i] (argument i of function f) or [k |-> "inst", i]
   (instruction i of the block being built). *)

NullValue == [k |-> "null"]

IsNullValue(v) == v.k = "null"

ConstantFP(num) == [k |-> "const", num |-> num]

Max(a, b) == IF a >= b THEN a ELSE b

Scaled(x, e) == x.m * Pow10(e - x.e)

(* x is written as a decimal, not as the result of an operation *)
IsDecimal(x) == "m" \in DOMAIN x

(* an integer small enough for sums, differences and products of two of them
   to be doubles *)
IsSmallInt(x) == IsDecimal(x) /\ x.e = 0 /\ x.m > -32768 /\ x.m < 32768

(* the double an operation on doubles gives, rounded as IEEE 754 rounds it,
   where it is not written out *)
IEEE(op, x, y) == [op |-> op, x |-> x, y |-> y]

FAdd(x, y) ==
    IF IsSmallInt(x) /\ IsSmallInt(y) THEN Num(x.m + y.m, 0) ELSE IEEE("fadd", x, y)

FSub(x, y) ==
    IF IsSmallInt(x) /\ IsSmallInt(y) THEN Num(x.m - y.m, 0) ELSE IEEE("fsub", x, y)

(* a product that is zero has the sign of its factors *)
FMul(x, y) ==
    IF IsSmallInt(x) /\ IsSmallInt(y) /\ (x.m * y.m # 0 \/ (x.m >= 0 /\ y.m >= 0))
    THEN Num(x.m * y.m, 0)
    ELSE IEEE("fmul", x, y)

(* on two decimals; distinct decimals of this size are distinct doubles *)
FCmpULT(x, y) == LET e == Max(x.e, y.e) IN Scaled(x, e) < Scaled(y, e)

FuncIndex(mod, name) ==
    IF \E i \in 1..Len(mod.funcs) : mod.funcs[i].name = name
    THEN CHOOSE i \in 1..Len(mod.funcs) : mod.funcs[i].name = name
    ELSE 0

(* Module::getFunction: the index in the function list, 0 for nullptr *)
getFunction(mod, name) == FuncIndex(mod, name)

(* ValueSymbolTable::makeUniqueName: the next number is appended until the
   name is free; a global's number follows a '.' *)
RECURSIVE makeUniqueName(_, _, _, _)
makeUniqueName(taken, base, sep, LastUnique) ==
    LET n == LastUnique + 1
        candidate == base \o sep \o ToString(n)
    IN  IF candidate \in taken THEN makeUniqueName(taken, base, sep, n)
        ELSE [name |-> candidate, LastUnique |-> n]

(* arg.setName (args[Idx++]) for each argument, in the new function's own,
   empty symbol table *)
RECURSIVE SetArgNames(_, _, _)
SetArgNames(args, named, LastUnique) ==
    IF args = << >> THEN named
    ELSE LET taken == {named[i] : i \in 1..Len(named)}
             u == IF Head(args) \in taken
                  THEN makeUniqueName(taken, Head(args), "", LastUnique)
                  ELSE [name |-> Head(args), LastUnique |-> LastUnique]
         IN  SetArgNames(Tail(args), Append(named, u.name), u.LastUnique)

(* IRBuilder: an instruction appended to the block being built.  The builder
   folds an operation on two constants into a constant and appends nothing. *)
NoFunction == [id |-> 0, obj |-> 0]

Emit(cg, op, callee_func, operands) ==
    [val |-> [k |-> "inst", i |-> Len(cg.ins) + 1],
     cg  |-> [cg EXCEPT !.ins = Append(@, [op |-> op, callee |-> callee_func.id,
                                            target |-> callee_func.obj,
                                            operands |-> operands])]]

CreateBinary(cg, op, L, R) ==
    IF L.k = "const" /\ R.k = "const"
    THEN [val |-> ConstantFP(CASE op = "fadd" -> FAdd(L.num, R.num)
                               [] op = "fsub" -> FSub(L.num, R.num)
                               [] op = "fmul" -> FMul(L.num, R.num)),
          cg |-> cg]
    ELSE Emit(cg, op, NoFunction, <<L, R>>)

(* CreateFCmpULT, then CreateUIToFP of its result *)
CreateCmpToFP(cg, L, R) ==
    IF L.k = "const" /\ R.k = "const"
    THEN [val |-> ConstantFP(IF IsDecimal(L.num) /\ IsDecimal(R.num)
                             THEN (IF FCmpULT(L.num, R.num) THEN Num(1, 0) ELSE Num(0, 0))
                             ELSE IEEE("uitofp fcmp ult", L.num, R.num)),
          cg |-> cg]
    ELSE LET c == Emit(cg, "fcmp ult", NoFunction, <<L, R>>)
         IN  Emit(c.cg, "uitofp", NoFunction, <<c.val>>)

-----------------------------------------------------------------------------
(* Lowering.  cg holds what the codegen methods write: named_values, ins (the
   instructions of the block the builder inserts into) and errs (the messages
   log_error has printed).  Each gives [val, cg]. *)

log_error_v(cg, err_string) ==
    [val |-> NullValue, cg |-> [cg EXCEPT !.errs = Append(@, err_string)]]

RECURSIVE codegen(_, _, _)
RECURSIVE CallArgs(_, _, _, _)

NumberExprAST_codegen(a, cg) == [val |-> ConstantFP(a.num_value), cg |-> cg]

(* named_values[name] adds the name with a null value when it is missing *)
VariableExprAST_codegen(a, cg) ==
    LET nv    == cg.named_values
        known == a.name \in DOMAIN nv
        value == IF known THEN nv[a.name] ELSE NullValue
        nv1   == IF known THEN nv
                 ELSE [n \in DOMAIN nv \cup {a.name} |->
                          IF n = a.name THEN NullValue ELSE nv[n]]
        cg1   == [cg EXCEPT !.named_values = nv1]
    IN  IF IsNullValue(value) THEN log_error_v(cg1, "Unknown variable name")
        ELSE [val |-> value, cg |-> cg1]

BinaryExprAST_codegen(a, mod, cg) ==
    Bind(codegen(a.LHS, mod, cg), LAMBDA L :
    Bind(codegen(a.RHS, mod, L.cg), LAMBDA R :
        IF IsNullValue(L.val) \/ IsNullValue(R.val) THEN [val |-> NullValue, cg |-> R.cg]
        ELSE CASE a.op = "+" -> CreateBinary(R.cg, "fadd", L.val, R.val)
               [] a.op = "-" -> CreateBinary(R.cg, "fsub", L.val, R.val)
               [] a.op = "*" -> CreateBinary(R.cg, "fmul", L.val, R.val)
               [] a.op = "<" -> CreateCmpToFP(R.cg, L.val, R.val)
               [] OTHER      -> log_error_v(R.cg, "invalid binary operator")))

(* the for loop of CallExprAST::codegen: ok is FALSE where it returns nullptr *)
CallArgs(args, mod, cg, args_vec) ==
    IF args = << >> THEN [ok |-> TRUE, args_vec |-> args_vec, cg |-> cg]
    ELSE Bind(codegen(Head(args), mod, cg), LAMBDA v :
            IF IsNullValue(v.val) THEN [ok |-> FALSE, args_vec |-> args_vec, cg |-> v.cg]
            ELSE Bind(Append(args_vec, v.val), LAMBDA vec :
                    CallArgs(Tail(args), mod, v.cg, vec)))

CallExprAST_codegen(a, mod, cg) ==
    LET callee_func == getFunction(mod, a.name)
    IN  IF callee_func = 0 THEN log_error_v(cg, "Unknown function referenced")
        ELSE IF Len(mod.funcs[callee_func].args) # Len(a.args)
        THEN log_error_v(cg, "Incorrect # arguments passed")
        ELSE Bind(CallArgs(a.args, mod, cg, << >>), LAMBDA r :
                IF ~r.ok THEN [val |-> NullValue, cg |-> r.cg]
                ELSE Emit(r.cg, "call", mod.funcs[callee_func], r.args_vec))

codegen(a, mod, cg) ==
    CASE a.k = "num"  -> NumberExprAST_codegen(a, cg)
      [] a.k = "var"  -> VariableExprAST_codegen(a, cg)
      [] a.k = "bin"  -> BinaryExprAST_codegen(a, mod, cg)
      [] a.k = "call" -> CallExprAST_codegen(a, mod, cg)

(* the addresses a function's call instructions hold *)
Callees(func) ==
    UNION {{func.blocks[b][i].callee :
                i \in {j \in 1..Len(func.blocks[b]) : func.blocks[b][j].op = "call"}} :
           b \in 1..Len(func.blocks)}

(* the Function objects a function's call instructions were made for *)
Targets(func) ==
    UNION {{func.blocks[b][i].target :
                i \in {j \in 1..Len(func.blocks[b]) : func.blocks[b][j].op = "call"}} :
           b \in 1..Len(func.blocks)}

Ids(mod) == {mod.funcs[i].id : i \in 1..Len(mod.funcs)}

Objs(mod) == {mod.funcs[i].obj : i \in 1..Len(mod.funcs)}

(* What operator new can return for a Function: an address never used, or
   the address of a destroyed one.  Of those only the addresses that call
   instructions still hold can be told from a new one. *)
Allocatable(mod) ==
    {mod.nextId} \cup (UNION {Callees(mod.funcs[i]) : i \in 1..Len(mod.funcs)} \ Ids(mod))

(* PrototypeAST::codegen: Function::Create always makes a new function, at
   addr; the module renames it when its name is taken.  Gives the module with
   the function appended. *)
PrototypeAST_codegen(proto, mod, addr) ==
    LET taken == {mod.funcs[i].name : i \in 1..Len(mod.funcs)}
        u == IF proto.name \in taken
             THEN makeUniqueName(taken, proto.name, ".", mod.LastUnique)
             ELSE [name |-> proto.name, LastUnique |-> mod.LastUnique]
        func == [id |-> addr, obj |-> mod.created + 1, name |-> u.name,
                 src |-> proto.name, args |-> SetArgNames(proto.args, << >>, 0),
                 blocks |-> << >>]
    IN  [funcs |-> Append(mod.funcs, func), LastUnique |-> u.LastUnique,
         nextId |-> IF addr = mod.nextId THEN mod.nextId + 1 ELSE mod.nextId,
         created |-> mod.created + 1]

(* a call instruction of func holds an address at which no function of the
   module is: reading its callee reads freed memory *)
HasDanglingCall(func, mod) == \E c \in Callees(func) : c \notin Ids(mod)

(* a call instruction of func is in the use list of a destroyed function:
   destroying the instruction writes to freed memory *)
HasStaleCall(func, mod) == \E t \in Targets(func) : t \notin Objs(mod)

(* a call instruction of another function is in func's use list *)
HasUses(func, mod) ==
    \E i \in 1..Len(mod.funcs) :
        mod.funcs[i].obj # func.obj /\ func.obj \in Targets(mod.funcs[i])

(* Function::eraseFromParent *)
eraseFromParent(mod, idx) ==
    [mod EXCEPT !.funcs = SubSeq(@, 1, idx - 1) \o SubSeq(@, idx + 1, Len(@))]

(* history: the stage a function object enters *)
Stage(life, obj, stage) ==
    IF obj \in DOMAIN life THEN [life EXCEPT ![obj] = Append(@, stage)]
    ELSE Append(life, <<stage>>)

(* The symbol table the loop of lines 489-490 fills from the function's arguments *)
ArgValues(func) ==
    [n \in {func.args[i] : i \in 1..Len(func.args)} |->
        [k |-> "arg", f |-> func.id,
         i |-> CHOOSE i \in 1..Len(func.args) : func.args[i] = n]]

(* lines 475-478: the module holding the function a definition is lowered into *)
ResolveFunction(fn, mod, addr) ==
    IF getFunction(mod, fn.prototype.name) # 0 THEN mod
    ELSE PrototypeAST_codegen(fn.prototype, mod, addr)

(* FunctionAST::codegen, addr being the address a function it creates gets.
   Gives ok (a function was returned), the module, the index of the function
   in it, named_values, the stages, the messages, and ub: verifyFunction read
   a call instruction whose callee is freed memory, or line 503 destroyed a
   function that is in use or a call instruction in the use list of a
   destroyed function. *)
FunctionAST_codegen(fn, mod, life, addr) ==
    Bind(ResolveFunction(fn, mod, addr), LAMBDA mod1 :
    Bind(getFunction(mod1, fn.prototype.name), LAMBDA idx :
    Bind(mod1.funcs[idx], LAMBDA the_func :
    Bind(Stage(IF Len(mod1.funcs) > Len(mod.funcs)
               THEN Stage(life, the_func.obj, "declared") ELSE life,
               the_func.obj, "body-in-progress"), LAMBDA life2 :
    Bind(codegen(fn.body, mod1,
                 [named_values |-> ArgValues(the_func), ins |-> << >>, errs |-> << >>]),
         LAMBDA body :
        IF ~IsNullValue(body.val)
        THEN LET block == Append(body.cg.ins,
                                 [op |-> "ret", callee |-> 0, target |-> 0,
                                  operands |-> <<body.val>>])
                 mod2  == [mod1 EXCEPT !.funcs[idx].blocks = Append(@, block)]
             IN  [ok |-> TRUE, mod |-> mod2, idx |-> idx,
                  named_values |-> body.cg.named_values,
                  lifecycle |-> Stage(life2, the_func.obj, "defined"),
                  errs |-> body.cg.errs,
                  ub |-> HasDanglingCall(mod2.funcs[idx], mod2)]
        ELSE LET built == [the_func EXCEPT !.blocks = Append(@, body.cg.ins)]
             IN  [ok |-> FALSE, mod |-> eraseFromParent(mod1, idx), idx |-> 0,
                  named_values |-> body.cg.named_values,
                  lifecycle |-> Stage(life2, the_func.obj, "discarded"),
                  errs |-> body.cg.errs,
                  ub |-> HasUses(the_func, mod1) \/ HasStaleCall(built, mod1)])))))

-----------------------------------------------------------------------------
(* Values the variables hold where a specification does not use them *)

Zero == Num(0, 0)

NoLast == [kind |-> "none"]

EmptyModule == [funcs |-> << >>, LastUnique |-> 0, nextId |-> 1, created |-> 0]

NoResult == [ast |-> NullAST, errs |-> << >>]

SeqsUpTo(S, n) == UNION {[1..k -> S] : k \in 0..n}

-----------------------------------------------------------------------------
(* SpecLex: get_token called again and again on an input *)

LexAlphabet == {"1", "2", ".", "a", " ", "+", "#", "\n", ""}

InitLex ==
    /\ input \in SeqsUpTo(LexAlphabet, MaxLen)
    /\ pos = 0
    /\ last_char = " "
    /\ identifier_str = ""
    /\ num_val = Zero
    /\ current_token = "NUL"
    /\ scanned = << >>
    /\ tokens = << >>
    /\ tpos = 0
    /\ result = NoResult
    /\ the_module = EmptyModule
    /\ named_values = << >>
    /\ lifecycle = << >>
    /\ last = NoLast
    /\ pc = "lex"

(* get_next_token: current_token = get_token () *)
LexGetNextToken ==
    /\ pc = "lex"
    /\ \E r \in {get_token(input, [pos |-> pos, last_char |-> last_char,
                                     identifier_str |-> identifier_str,
                                     num_val |-> num_val])} :
           /\ current_token' = r.tok
           /\ pos' = r.pos
           /\ last_char' = r.last_char
           /\ identifier_str' = r.identifier_str
           /\ num_val' = r.num_val
           /\ scanned' = r.scanned
    /\ UNCHANGED <<input, tokens, tpos, result, the_module, named_values, lifecycle, last, pc>>

NextLex == LexGetNextToken

SpecLex == InitLex /\ [][NextLex]_vars

(* C4: a number token's value is the decimal value of the text the scanner
   consumed for it (the run of digits with at most one point), never the value
   of an empty buffer. *)
C4_NumberCarriesScannedText ==
    current_token = "TOK_NUMBER" => num_val = strtod(scanned)

-----------------------------------------------------------------------------
(* SpecParse: parse_expression on a token sequence.  The state is the one
   main leaves after its first get_next_token. *)

StartPS == [tpos |-> 0, pos |-> 0, last_char |-> " ", current_token |-> "NUL",
            identifier_str |-> "", num_val |-> Zero, errs |-> << >>]

PS == [tpos |-> tpos, pos |-> pos, last_char |-> last_char,
       current_token |-> current_token, identifier_str |-> identifier_str,
       num_val |-> num_val, errs |-> << >>]

SetGlobals(ps) ==
    /\ tpos' = ps.tpos
    /\ pos' = ps.pos
    /\ last_char' = ps.last_char
    /\ current_token' = ps.current_token
    /\ identifier_str' = ps.identifier_str
    /\ num_val' = ps.num_val

(* main up to main_loop: the first get_next_token, on the given scanner output
   or input, and the empty module *)
InitMain(toks, inp, at) ==
    /\ input = inp
    /\ tokens = toks
    /\ \E ps \in {get_next_token(StartPS)} :
           /\ tpos = ps.tpos
           /\ pos = ps.pos
           /\ last_char = ps.last_char
           /\ current_token = ps.current_token
           /\ identifier_str = ps.identifier_str
           /\ num_val = ps.num_val
    /\ scanned = << >>
    /\ result = NoResult
    /\ the_module = EmptyModule
    /\ named_values = << >>
    /\ lifecycle = << >>
    /\ last = NoLast
    /\ pc = at

TIdent(name) == [tok |-> "TOK_IDENTIFIER", str |-> name, num |-> Zero]

(* the number token get_token returns: line 77 converts the empty number_str *)
TNumber == [tok |-> "TOK_NUMBER", str |-> "", num |-> strtod(<< >>)]

TChar(c) == [tok |-> c, str |-> "", num |-> Zero]

ParseAlphabet == {TIdent("f"), TNumber, TChar("("), TChar(")"), TChar(","), TChar("+")}

InitParse == \E toks \in SeqsUpTo(ParseAlphabet, MaxToks) : InitMain(toks, << >>, "parse")

ParseExpression ==
    /\ pc = "parse"
    /\ \E r \in {parse_expression(PS)} :
           /\ result' = [ast |-> r.ast, errs |-> r.ps.errs]
           /\ SetGlobals(r.ps)
    /\ pc' = "parsed"
    /\ UNCHANGED <<input, scanned, tokens, the_module, named_values, lifecycle, last>>

NextParse == ParseExpression

SpecParse == InitParse /\ [][NextParse]_vars

(* C5: a parse function returns "no value" when a sub-production it invoked
   failed.  Every failure is reported through log_error where it arises, so a
   parse that returns a node has reported no failure. *)
C5_FailurePropagates ==
    (pc = "parsed" /\ ~IsNull(result.ast)) => result.errs = << >>

-----------------------------------------------------------------------------
(* SpecPrec: parse_expression on primary (op primary)*, followed by the end of
   the input, a ';' or a ')' *)

PrecOps == {"<", "+", "-", "*"}

PrecPrimary(i, kind) ==
    IF kind = "num" \/ (kind = "mixed" /\ i % 2 = 1) THEN TNumber
    ELSE TIdent("v" \o ToString(i))

PrecTokens(ops, kind, term) ==
    [i \in 1..(2 * Len(ops) + 1) |->
        IF i % 2 = 1 THEN PrecPrimary((i + 1) \div 2, kind) ELSE TChar(ops[i \div 2])]
    \o (IF term = "" THEN << >> ELSE <<TChar(term)>>)

InitPrec ==
    \E ops \in SeqsUpTo(PrecOps, MaxOps), kind \in {"num", "mixed", "var"}, term \in {"", ";", ")"} :
        InitMain(PrecTokens(ops, kind, term), << >>, "parse")

SpecPrec == InitPrec /\ [][NextParse]_vars

(* The token sequence a tree reads as, left to right *)
RECURSIVE Flatten(_)
Flatten(a) ==
    CASE a.k = "num" -> <<[tok |-> "TOK_NUMBER", str |-> "", num |-> a.num_value]>>
      [] a.k = "var" -> <<TIdent(a.name)>>
      [] a.k = "bin" -> Flatten(a.LHS) \o <<TChar(a.op)>> \o Flatten(a.RHS)
      [] OTHER       -> <<TChar("?")>>

(* The table the claim names *)
ClaimPrec(op) ==
    CASE op = "<" -> 10 [] op = "+" -> 20 [] op = "-" -> 20 [] op = "*" -> 40

(* In every BinaryOp node an operator directly under it on the right binds
   strictly tighter, one directly under it on the left at least as tight *)
RECURSIVE Climbs(_)
Climbs(a) ==
    a.k = "bin" =>
        /\ a.RHS.k = "bin" => ClaimPrec(a.RHS.op) > ClaimPrec(a.op)
        /\ a.LHS.k = "bin" => ClaimPrec(a.LHS.op) >= ClaimPrec(a.op)
        /\ Climbs(a.LHS)
        /\ Climbs(a.RHS)

ExprLen ==
    IF tokens # << >> /\ tokens[Len(tokens)].tok \in {";", ")"}
    THEN Len(tokens) - 1 ELSE Len(tokens)

(* C3: on primary (op primary)* parse_expression returns the tree that reads as
   the token sequence, in which a tighter operator is nested under an adjacent
   looser one and equal operators group to the left, and it consumes exactly
   those tokens: what follows them is the current token. *)
C3_PrecedenceClimbing ==
    pc = "parsed" =>
        /\ ~IsNull(result.ast)
        /\ result.errs = << >>
        /\ Flatten(result.ast) = SubSeq(tokens, 1, ExprLen)
        /\ Climbs(result.ast)
        /\ tpos = ExprLen + 1
        /\ current_token = IF ExprLen < Len(tokens) THEN tokens[Len(tokens)].tok ELSE "TOK_EOF"

(* primary + primary * primary has been parsed: + at the root, * under it on
   the right *)
C3_Witness ==
    /\ pc = "parsed"
    /\ ExprLen = 5
    /\ tokens[2].tok = "+"
    /\ tokens[4].tok = "*"
    /\ result.ast.k = "bin"
    /\ result.ast.op = "+"
    /\ result.ast.RHS.k = "bin"
    /\ result.ast.RHS.op = "*"

-----------------------------------------------------------------------------
(* Spec: main on a program, a sequence of at most MaxItems pieces of text *)

Catalog == <<
    (* extern f(a); *)
    <<"e", "x", "t", "e", "r", "n", " ", "f", "(", "a", ")", ";", " ">>,
    (* def f(a) a; *)
    <<"d", "e", "f", " ", "f", "(", "a", ")", " ", "a", ";", " ">>,
    (* def f(b) b; *)
    <<"d", "e", "f", " ", "f", "(", "b", ")", " ", "b", ";", " ">>,
    (* def f(b) a; *)
    <<"d", "e", "f", " ", "f", "(", "b", ")", " ", "a", ";", " ">>,
    (* def g(a) f(a)-1; *)
    <<"d", "e", "f", " ", "g", "(", "a", ")", " ", "f", "(", "a", ")", "-", "1", ";", " ">>,
    (* def g(a) a; *)
    <<"d", "e", "f", " ", "g", "(", "a", ")", " ", "a", ";", " ">>,
    (* f(1)+2*3; *)
    <<"f", "(", "1", ")", "+", "2", "*", "3", ";", " ">>,
    (* ) def 1; *)
    <<")", " ", "d", "e", "f", " ", "1", ";", " ">>,
    (* f(1+); *)
    <<"f", "(", "1", "+", ")", ";", " ">>,
    (* def h(x x) x1<x; *)
    <<"d", "e", "f", " ", "h", "(", "x", " ", "x", ")", " ", "x", "1", "<", "x", ";", " ">>
    >>

RECURSIVE Concat(_)
Concat(ss) == IF ss = << >> THEN << >> ELSE Head(ss) \o Concat(Tail(ss))

Programs ==
    {Concat([i \in 1..Len(picks) |-> Catalog[picks[i]]]) :
        picks \in SeqsUpTo(1..Len(Catalog), MaxItems)}

(* What is left to consume: the characters not yet read, the pending
   character and the current token *)
Unread(p, lc, tok) ==
    (Len(input) - p) + (IF lc = EOF THEN 0 ELSE 1) + (IF tok = "TOK_EOF" THEN 0 ELSE 1)

Init == \E inp \in Programs : InitMain(<< >>, inp, "loop")

Iteration(kind, parsed, lowered, ast, errs) ==
    [kind |-> kind, parsed |-> parsed, lowered |-> lowered, ast |-> ast, errs |-> errs,
     before |-> Unread(pos, last_char, current_token)]

(* Where a step ran into undefined behaviour the build decides: the process
   goes on to next, or it dies in the step.  An LLVM built with assertions
   aborts when a function that still has uses is destroyed; any build may
   die where it reads or writes the freed memory. *)
Outcome(ub, next) == IF ub THEN {next, "aborted"} ELSE {next}

Idle == UNCHANGED <<input, scanned, tokens, result>>

(* case TOK_EOF: return; main then prints the module (line 599), which reads
   every call instruction, and the module is destroyed at exit *)
main_loop_return ==
    /\ pc = "loop"
    /\ current_token = "TOK_EOF"
    /\ pc' \in {IF out = "aborted" THEN "died" ELSE out :
                 out \in Outcome(\E i \in 1..Len(the_module.funcs) :
                                    HasStaleCall(the_module.funcs[i], the_module),
                                "done")}
    /\ last' = Iteration("eof", FALSE, FALSE, NullAST, << >>)
    /\ UNCHANGED <<tpos, pos, last_char, current_token, identifier_str, num_val,
                   the_module, named_values, lifecycle>>
    /\ Idle

(* case ';': get_next_token () *)
main_loop_skip ==
    /\ pc = "loop"
    /\ current_token = ";"
    /\ SetGlobals(get_next_token(PS))
    /\ last' = Iteration("skip", FALSE, FALSE, NullAST, << >>)
    /\ UNCHANGED <<the_module, named_values, lifecycle, pc>>
    /\ Idle

handle_definition ==
    /\ pc = "loop"
    /\ current_token = "TOK_DEF"
    /\ \E FnAST \in {parse_definition(PS)} :
           IF ~IsNull(FnAST.ast)
           THEN \E addr \in Allocatable(the_module) :
                \E FnIR \in {FunctionAST_codegen(FnAST.ast, the_module, lifecycle, addr)} :
                    /\ SetGlobals(FnAST.ps)
                    /\ the_module' = FnIR.mod
                    /\ named_values' = FnIR.named_values
                    /\ lifecycle' = FnIR.lifecycle
                    /\ last' = Iteration("def", TRUE, FnIR.ok, FnAST.ast,
                                         FnAST.ps.errs \o FnIR.errs)
                    /\ pc' \in Outcome(FnIR.ub, "loop")
           ELSE /\ SetGlobals(get_next_token(FnAST.ps))
                /\ last' = Iteration("def", FALSE, FALSE, NullAST, FnAST.ps.errs)
                /\ UNCHANGED <<the_module, named_values, lifecycle, pc>>
    /\ Idle

handle_extern ==
    /\ pc = "loop"
    /\ current_token = "TOK_EXTERN"
    /\ \E ProtoAST \in {parse_extern(PS)} :
           IF ~IsNull(ProtoAST.ast)
           THEN \E addr \in Allocatable(the_module) :
                \E mod \in {PrototypeAST_codegen(ProtoAST.ast, the_module, addr)} :
                    /\ SetGlobals(ProtoAST.ps)
                    /\ the_module' = mod
                    /\ lifecycle' = Stage(lifecycle, mod.created, "declared")
                    /\ last' = Iteration("extern", TRUE, TRUE, ProtoAST.ast, ProtoAST.ps.errs)
                    /\ UNCHANGED <<named_values, pc>>
           ELSE /\ SetGlobals(get_next_token(ProtoAST.ps))
                /\ last' = Iteration("extern", FALSE, FALSE, NullAST, ProtoAST.ps.errs)
                /\ UNCHANGED <<the_module, named_values, lifecycle, pc>>
    /\ Idle

handle_toplevel_expression ==
    /\ pc = "loop"
    /\ current_token \notin {"TOK_EOF", ";", "TOK_DEF", "TOK_EXTERN"}
    /\ \E FnAST \in {parse_toplevel_expression(PS)} :
           IF ~IsNull(FnAST.ast)
           THEN \E addr \in Allocatable(the_module) :
                \E FnIR \in {FunctionAST_codegen(FnAST.ast, the_module, lifecycle, addr)} :
                LET func == FnIR.mod.funcs[FnIR.idx]
                IN  /\ SetGlobals(FnAST.ps)
                    /\ the_module' = IF FnIR.ok THEN eraseFromParent(FnIR.mod, FnIR.idx)
                                     ELSE FnIR.mod
                    /\ named_values' = FnIR.named_values
                    /\ lifecycle' = IF FnIR.ok THEN Stage(FnIR.lifecycle, func.obj, "erased")
                                    ELSE FnIR.lifecycle
                    /\ last' = Iteration("expr", TRUE, FnIR.ok, FnAST.ast,
                                         FnAST.ps.errs \o FnIR.errs)
                    /\ pc' \in Outcome(FnIR.ub \/ (FnIR.ok /\ HasUses(func, FnIR.mod)), "loop")
           ELSE /\ SetGlobals(get_next_token(FnAST.ps))
                /\ last' = Iteration("expr", FALSE, FALSE, NullAST, FnAST.ps.errs)
                /\ UNCHANGED <<the_module, named_values, lifecycle, pc>>
    /\ Idle

Next ==
    \/ main_loop_return
    \/ main_loop_skip
    \/ handle_definition
    \/ handle_extern
    \/ handle_toplevel_expression

Spec == Init /\ [][Next]_vars

-----------------------------------------------------------------------------
(* The claims about main *)

Funcs == the_module.funcs

(* the entries of the module made for a source-level name *)
Entries(mod, n) == {i \in 1..Len(mod.funcs) : mod.funcs[i].src = n}

SourceNames == {"f", "g", "h", "__anon_expr"}

(* C1: after any sequence of extern and def lowerings the module holds at
   most one function entry per source-level function name. *)
C1_OneEntryPerName ==
    \A n \in SourceNames : Cardinality(Entries(the_module, n)) <= 1

(* C2: every function left in the module is a declaration without a body or
   a definition each of whose blocks ends in a return, and every call of a
   function left in the module names a function that is in the module. *)
C2_NoDanglingDefinition ==
    \A i \in 1..Len(Funcs) :
        /\ \A b \in 1..Len(Funcs[i].blocks) :
              /\ Funcs[i].blocks[b] # << >>
              /\ Funcs[i].blocks[b][Len(Funcs[i].blocks[b])].op = "ret"
        /\ Callees(Funcs[i]) \subseteq Ids(the_module)

RECURSIVE VarRefs(_)
VarRefs(a) ==
    CASE a.k = "var"  -> {a.name}
      [] a.k = "bin"  -> VarRefs(a.LHS) \cup VarRefs(a.RHS)
      [] a.k = "call" -> UNION {VarRefs(a.args[i]) : i \in 1..Len(a.args)}
      [] OTHER        -> {}

Params(fn) == {fn.prototype.args[i] : i \in 1..Len(fn.prototype.args)}

(* the Function's parameter names are distinct, as its callers are to see to *)
DistinctParams(fn) == Cardinality(Params(fn)) = Len(fn.prototype.args)

LoweredFunction == last.kind \in {"def", "expr"} /\ last.parsed /\ DistinctParams(last.ast)

Reported(msg) == \E i \in 1..Len(last.errs) : last.errs[i] = msg

(* C6: a Function whose body refers to a variable that is not among its
   parameters fails to lower, with "unknown variable name". *)
C6_UnknownVariableFails ==
    (LoweredFunction /\ ~(VarRefs(last.ast.body) \subseteq Params(last.ast)))
        => (~last.lowered /\ Reported("Unknown variable name"))

(* C7: no function object enters body-in-progress after it was defined or
   discarded. *)
C7_NoReentry ==
    \A id \in DOMAIN lifecycle :
        \A i, j \in 1..Len(lifecycle[id]) :
            (i < j /\ lifecycle[id][i] \in {"defined", "discarded", "erased"})
                => lifecycle[id][j] # "body-in-progress"

(* C8: every iteration of the loop that does not return consumes at least one
   token, the process does not die in the loop, and the loop is left only at
   end-of-input. *)
C8_NoErrorEndsTheSession ==
    /\ last.kind \in {"skip", "def", "extern", "expr"}
          => Unread(pos, last_char, current_token) < last.before
    /\ pc # "aborted"
    /\ pc # "loop" => current_token = "TOK_EOF"

(* C9: where every variable the body of def f(p1 ... pn) refers to is one of
   p1 ... pn, lowering reports no unknown variable name. *)
C9_ParametersResolve ==
    (LoweredFunction /\ last.kind = "def" /\ VarRefs(last.ast.body) \subseteq Params(last.ast))
        => ~Reported("Unknown variable name")

(* what is observable of a module's function list *)
Shape(mod) ==
    [i \in 1..Len(mod.funcs) |->
        [id |-> mod.funcs[i].id, name |-> mod.funcs[i].name, args |-> mod.funcs[i].args,
         blocks |-> [b \in 1..Len(mod.funcs[i].blocks) |->
                        [j \in 1..Len(mod.funcs[i].blocks[b]) |->
                            <<mod.funcs[i].blocks[b][j].op,
                              mod.funcs[i].blocks[b][j].callee>>]]]]

(* C10: a def whose lowering fails leaves every function of the module as it
   was. *)
C10_FailedDefLeavesModule ==
    [][(last'.kind = "def" /\ last'.parsed /\ ~last'.lowered)
          => Shape(the_module') = Shape(the_module)]_vars

=============================================================================
